---- MODULE Spec2Model ----
(***************************************************************************)
(* The polls application voteApp: its URL routing table (urls.py) and its  *)
(* admin configuration (admin.py), with the Question/Choice rows the admin *)
(* site and the views work on.                                             *)
(*                                                                         *)
(* A request path is a sequence of one-character strings, relative to the  *)
(* prefix under which the project includes the application's URLconf.      *)
(***************************************************************************)
EXTENDS Integers, Sequences, FiniteSets, TLC

\* ------------------------------------------------------------------ bounds

\* Longest path enumerated exhaustively over Alphabet.
MaxPathLen == 3
\* Longest digit string used as the leading segment of a structured path.
MaxDigits == 2
\* Question rows at a time (primary keys 1..MaxQuestions).
MaxQuestions == 2
\* Choice rows at a time (primary keys 1..MaxChoices).
MaxChoices == 2
\* Cap on a votes counter and on the number of votes cast for one Choice.
MaxVotes == 2

\* ------------------------------------------------------------- characters

Digits == <<"0", "1", "2", "3", "4", "5", "6", "7", "8", "9">>

DigitChars == {Digits[i] : i \in 1..10}

DigitVal(ch) == (CHOOSE i \in 1..10 : Digits[i] = ch) - 1

Slash == <<"/">>

\* The literal text of the routes of urls.py.
ResultsLit == <<"/", "r", "e", "s", "u", "l", "t", "s", "/">>

VoteLit == <<"/", "v", "o", "t", "e", "/">>

Take(s, k) == SubSeq(s, 1, k)

Drop(s, k) == SubSeq(s, k + 1, Len(s))

IsPrefix(p, s) == Len(p) <= Len(s) /\ Take(s, Len(p)) = p

\* ----------------------------------------------------- the int converter

\* IntConverter.to_python: int(value) of a string matched by [0-9]+.
RECURSIVE ToPython(_)
ToPython(s) ==
    IF s = <<>> THEN 0
    ELSE 10 * ToPython(Take(s, Len(s) - 1)) + DigitVal(s[Len(s)])

\* str(n) for n >= 0: the decimal digits, no leading zero.
RECURSIVE Decimal(_)
Decimal(n) ==
    IF n < 10 THEN <<Digits[n + 1]>>
    ELSE Decimal(n \div 10) \o <<Digits[(n % 10) + 1]>>

\* IntConverter.to_url: str(value).
ToUrl(n) == IF n < 0 THEN <<"-">> \o Decimal(0 - n) ELSE Decimal(n)

\* --------------------------------------------------------------- urls.py

\* A route is a sequence of parts: literal text, or a <int:name> converter.
Lit(text) == [conv |-> "", name |-> "", text |-> text]

IntPart(name) == [conv |-> "int", name |-> name, text |-> <<>>]

UrlPatternsSwapped ==
    << [route |-> <<>>, view |-> "index", name |-> "index"],
       [route |-> <<IntPart("question_id"), Lit(Slash)>>,
        view |-> "detail", name |-> "detail"],
       [route |-> <<IntPart("question_id"), Lit(ResultsLit)>>,
        view |-> "vote", name |-> "results"],
       [route |-> <<IntPart("question_id"), Lit(VoteLit)>>,
        view |-> "results", name |-> "vote"],
       [route |-> <<>>, view |-> "home", name |-> "home"] >>

UrlPatternsVoteDetail ==
    << [route |-> <<>>, view |-> "index", name |-> "index"],
       [route |-> <<IntPart("question_id"), Lit(Slash)>>,
        view |-> "detail", name |-> "detail"],
       [route |-> <<IntPart("question_id"), Lit(ResultsLit)>>,
        view |-> "results", name |-> "results"],
       [route |-> <<IntPart("question_id"), Lit(VoteLit)>>,
        view |-> "detail", name |-> "vote"],
       [route |-> <<>>, view |-> "home", name |-> "home"] >>

UrlPatternsNoSlash ==
    << [route |-> <<>>, view |-> "index", name |-> "index"],
       [route |-> <<IntPart("question_id"), Lit(Slash)>>,
        view |-> "detail", name |-> "detail"],
       [route |-> <<IntPart("question_id"), Lit(ResultsLit)>>,
        view |-> "results", name |-> "results"],
       [route |-> <<IntPart("question_id"), Lit(Take(VoteLit, Len(VoteLit) - 1))>>,
        view |-> "vote", name |-> "vote"],
       [route |-> <<>>, view |-> "home", name |-> "home"] >>

\* urlpatterns, in list order.
UrlPatterns ==
    << [route |-> <<>>, view |-> "index", name |-> "index"],
       [route |-> <<IntPart("question_id"), Lit(Slash)>>,
        view |-> "detail", name |-> "detail"],
       [route |-> <<IntPart("question_id"), Lit(ResultsLit)>>,
        view |-> "results", name |-> "results"],
       [route |-> <<IntPart("question_id"), Lit(VoteLit)>>,
        view |-> "vote", name |-> "vote"],
       [route |-> <<>>, view |-> "home", name |-> "home"] >>

\* The view functions the table names.
Handlers == {UrlPatterns[i].view : i \in 1..Len(UrlPatterns)}

\* Length of the longest prefix of s made of digits.
RECURSIVE DigitPrefixLen(_)
DigitPrefixLen(s) ==
    IF s # <<>> /\ Head(s) \in DigitChars THEN 1 + DigitPrefixLen(Tail(s))
    ELSE 0

NoMatch == [matched |-> FALSE, kwargs |-> {}]

\* path(route, ...) compiles the route to a regular expression anchored at
\* both ends, [0-9]+ for an int converter (greedy, backtracking), and hands
\* each captured group to the converter's to_python.  kwargs is the set of
\* <<name, value>> pairs captured.
RECURSIVE MatchParts(_, _)
MatchParts(parts, s) ==
    IF parts = <<>> THEN
        IF s = <<>> THEN [matched |-> TRUE, kwargs |-> {}] ELSE NoMatch
    ELSE
        LET p == Head(parts)
            rest == Tail(parts)
        IN  IF p.conv = "" THEN
                IF IsPrefix(p.text, s) THEN MatchParts(rest, Drop(s, Len(p.text)))
                ELSE NoMatch
            ELSE
                LET ks == {k \in 1..DigitPrefixLen(s) :
                               MatchParts(rest, Drop(s, k)).matched}
                IN  IF ks = {} THEN NoMatch
                    ELSE LET k == CHOOSE x \in ks : \A y \in ks : y <= x
                             m == MatchParts(rest, Drop(s, k))
                         IN  [matched |-> TRUE,
                              kwargs |-> {<<p.name, ToPython(Take(s, k))>>}
                                             \cup m.kwargs]

Resolver404 == [view |-> "Resolver404", kwargs |-> {}]

\* URLResolver.resolve: the patterns are tried in list order and the first
\* one that matches wins; none matching raises Resolver404.
Resolve(patterns, s) ==
    LET hits == {i \in 1..Len(patterns) : MatchParts(patterns[i].route, s).matched}
    IN  IF hits = {} THEN Resolver404
        ELSE LET i == CHOOSE x \in hits : \A y \in hits : x <= y
             IN  [view |-> patterns[i].view,
                  kwargs |-> MatchParts(patterns[i].route, s).kwargs]

\* The names of the converters of a route.
RouteParams(route) == {route[i].name : i \in {j \in 1..Len(route) : route[j].conv # ""}}

\* The candidate URL of a route for the given arguments: literal text as it
\* is, each converter replaced by to_url of its argument.
RECURSIVE Candidate(_, _)
Candidate(route, kwargs) ==
    IF route = <<>> THEN <<>>
    ELSE LET p == Head(route)
         IN  (IF p.conv = "" THEN p.text
              ELSE ToUrl((CHOOSE kv \in kwargs : kv[1] = p.name)[2]))
             \o Candidate(Tail(route), kwargs)

NoReverseMatch == [ok |-> FALSE, url |-> <<>>]

\* reverse("polls:<name>", kwargs): among the patterns registered under the
\* name whose parameters are exactly the arguments given, the first (the
\* reverse dictionary is filled from the end of the list) whose candidate
\* URL matches its own regular expression.
Reverse(patterns, name, kwargs) ==
    LET fits == {i \in 1..Len(patterns) :
                    /\ patterns[i].name = name
                    /\ RouteParams(patterns[i].route) = {kv[1] : kv \in kwargs}
                    /\ MatchParts(patterns[i].route,
                                  Candidate(patterns[i].route, kwargs)).matched}
    IN  IF fits = {} THEN NoReverseMatch
        ELSE LET i == CHOOSE x \in fits : \A y \in fits : y <= x
             IN  [ok |-> TRUE, url |-> Candidate(patterns[i].route, kwargs)]

\* -------------------------------------------------------------- admin.py

\* extra = 3: the empty Choice forms the inline shows.
ChoiceInlineExtra == 3

ChoiceInlineNoVotes ==
    [model |-> "Choice", extra |-> ChoiceInlineExtra,
     fields |-> <<"choice_text", "image">>]

\* class ChoiceInline(admin.TabularInline)
ChoiceInline ==
    [model |-> "Choice", extra |-> ChoiceInlineExtra,
     fields |-> <<"choice_text", "image", "votes">>]

QuestionAdminNoInline ==
    [fieldsets |-> << <<"question_text">>, <<"pub_date">> >>,
     inlines |-> <<>>,
     list_display |-> <<"question_text", "pub_date", "was_published_recently">>,
     list_filter |-> <<"pub_date">>,
     search_fields |-> <<"question_text">>]

\* class QuestionAdmin(admin.ModelAdmin)
QuestionAdmin ==
    [fieldsets |-> << <<"question_text">>, <<"pub_date">> >>,
     inlines |-> <<"ChoiceInline">>,
     list_display |-> <<"question_text", "pub_date", "was_published_recently">>,
     list_filter |-> <<"pub_date">>,
     search_fields |-> <<"question_text">>]

\* class ChoiceAdmin(admin.ModelAdmin)
ChoiceAdmin ==
    [list_display |-> <<"choice_text", "question", "image", "votes">>,
     list_filter |-> <<"question">>,
     search_fields |-> <<"choice_text">>]

\* The statements of the module, in order; each is one step of its import.
AdminModule ==
    << [stmt |-> "set", target |-> "site_header",
        value |-> "St. Francis School Student Council Elections"],
       [stmt |-> "set", target |-> "site_title", value |-> "Voting Admin Portal"],
       [stmt |-> "set", target |-> "index_title",
        value |-> "Welcome to the Voting Admin Area"],
       [stmt |-> "class", target |-> "ChoiceInline", value |-> ""],
       [stmt |-> "class", target |-> "QuestionAdmin", value |-> ""],
       [stmt |-> "class", target |-> "ChoiceAdmin", value |-> ""],
       [stmt |-> "register", target |-> "Question", value |-> "QuestionAdmin"],
       [stmt |-> "register", target |-> "Choice", value |-> "ChoiceAdmin"] >>

\* The body of each class statement.
ClassBody(name) ==
    CASE name = "ChoiceInline" -> ChoiceInline
      [] name = "QuestionAdmin" -> QuestionAdmin
      [] name = "ChoiceAdmin" -> ChoiceAdmin

\* The data entities of models.py that admin.py imports.
Models == {"Question", "Choice"}

\* ----------------------------------------------------------------- state

VARIABLES
    adminPc,      \* index of the next statement of admin.py; 0 once it raised
    site,         \* admin.site: its titles
    classes,      \* the admin classes defined so far, by name
    registry,     \* admin.site._registry: model -> admin class name
    urlpatterns,  \* the routing table of the polls namespace; <<>> until loaded
    questions,    \* Question rows by primary key
    choices,      \* Choice rows by primary key
    tally,        \* per Choice: votes cast since created, value of the last
                  \* admin save, votes cast since that save (history only)
    request,      \* the request served last
    response      \* and its outcome

vars ==
    <<adminPc, site, classes, registry, urlpatterns, questions, choices,
      tally, request, response>>

startup == <<adminPc, site, classes, registry, urlpatterns>>

database == <<questions, choices, tally>>

AdminDone == Len(AdminModule) + 1

AdminRaised == 0

NoRequest == [via |-> "", path |-> <<>>, choice |-> 0, followed |-> ""]

NoResponse == [view |-> "", kwargs |-> {}, status |-> 0, body |-> <<>>]

Init ==
    /\ adminPc = 1
    /\ site = [site_header |-> "Django administration",
               site_title |-> "Django site admin",
               index_title |-> "Site administration"]
    /\ classes = <<>>
    /\ registry = <<>>
    /\ urlpatterns = <<>>
    /\ questions = <<>>
    /\ choices = <<>>
    /\ tally = <<>>
    /\ request = NoRequest
    /\ response = NoResponse

\* ------------------------------------------------------------- start-up

\* One statement of admin.py.  admin.site.register raises AlreadyRegistered,
\* and the import fails, when the model is registered already.
LoadAdmin ==
    /\ adminPc \in 1..Len(AdminModule)
    /\ LET s == AdminModule[adminPc]
       IN  /\ site' = IF s.stmt = "set" THEN [site EXCEPT ![s.target] = s.value]
                      ELSE site
           /\ classes' = IF s.stmt = "class"
                         THEN (s.target :> ClassBody(s.target)) @@ classes
                         ELSE classes
           /\ registry' = IF s.stmt = "register" /\ s.target \notin DOMAIN registry
                          THEN (s.target :> s.value) @@ registry
                          ELSE registry
           /\ adminPc' = IF s.stmt = "register" /\ s.target \in DOMAIN registry
                         THEN AdminRaised
                         ELSE adminPc + 1
    /\ UNCHANGED <<urlpatterns, database, request, response>>

\* The URLconf is imported once the applications are set up.
LoadUrls ==
    /\ adminPc = AdminDone
    /\ urlpatterns = <<>>
    /\ urlpatterns' = UrlPatterns
    /\ UNCHANGED <<adminPc, site, classes, registry, database, request, response>>

Serving == adminPc = AdminDone /\ urlpatterns # <<>>

\* ------------------------------------------------- Question and Choice

\* What the admin types into the Question's own fields.
QuestionForms ==
    {[question_text |-> "p", pub_date |-> 1], [question_text |-> "q", pub_date |-> 2]}

ChoiceTexts == {"a"}

\* The image is optional: an ImageField left empty holds "".  No view reads
\* it, and the admin leaves it empty here.
Images == {""}

VoteCounts == 0..MaxVotes

\* Everything a Choice form can submit.
ChoiceForms == [choice_text : ChoiceTexts, image : Images, votes : VoteCounts]

BlankForm == [choice_text |-> "a", image |-> "", votes |-> 0]

\* What the admin does with one existing row of the inline formset.
RowOps ==
    {[op |-> "keep", form |-> BlankForm], [op |-> "delete", form |-> BlankForm]}
        \cup {[op |-> "save", form |-> f] : f \in ChoiceForms}

ChoicesOf(q) == {c \in DOMAIN choices : choices[c].question = q}

Without(f, gone) == [x \in DOMAIN f \ gone |-> f[x]]

SeqsUpTo(S, n) == UNION {[1..k -> S] : k \in 0..n}

Min(a, b) == IF a < b THEN a ELSE b

InlineWriteNoParent(q, old, form, fields) ==
    [question |-> old.question,
     choice_text |-> form.choice_text,
     image |-> form.image,
     votes |-> form.votes]

\* The row an inline form saves: the foreign key is the Question of the
\* page, and the form writes the fields the inline lists, leaving the others
\* as they are (old is the stored row, or the model's defaults).
InlineWrite(q, old, form, fields) ==
    LET listed == {fields[i] : i \in 1..Len(fields)}
        put(f) == IF f \in listed THEN form[f] ELSE old[f]
    IN  [question |-> q,
         choice_text |-> put("choice_text"),
         image |-> put("image"),
         votes |-> put("votes")]

\* A new Choice before its form is applied.
ChoiceDefaults == [question |-> 0, choice_text |-> "a", image |-> "", votes |-> 0]

\* The Choice page of ChoiceAdmin declares no fields: its form holds them all.
ChoiceWrite(q, form) ==
    [question |-> q,
     choice_text |-> form.choice_text,
     image |-> form.image,
     votes |-> form.votes]

\* History of a row an admin form has just saved with votes = v.
Saved(c, v) ==
    [cast |-> IF c \in DOMAIN tally THEN tally[c].cast ELSE 0,
     base |-> v,
     since |-> 0]

AdminRequest == [via |-> "admin", path |-> <<>>, choice |-> 0, followed |-> ""]

AdminResponse == [view |-> "admin", kwargs |-> {}, status |-> 302, body |-> <<>>]

AdminFor(model) ==
    /\ Serving
    /\ model \in DOMAIN registry
    /\ request' = AdminRequest
    /\ response' = AdminResponse
    /\ UNCHANGED startup

\* The inline editors of the Question page.
QuestionInlines ==
    LET names == classes[registry["Question"]].inlines
    IN  {classes[names[i]] : i \in 1..Len(names)}

\* Primary keys: a new row takes the smallest key of its table not in use.
QuestionKeys == 1..MaxQuestions

ChoiceKeys == 1..MaxChoices

RECURSIVE Ascending(_)
Ascending(S) ==
    IF S = {} THEN <<>>
    ELSE LET x == CHOOSE y \in S : \A z \in S : y <= z
         IN  <<x>> \o Ascending(S \ {x})

FreeChoiceKeys == Ascending(ChoiceKeys \ DOMAIN choices)

\* The Question page of the admin (add_view and change_view): the Question's
\* own fields, and one formset per inline of QuestionAdmin: a row per Choice
\* of the Question, kept, deleted or saved, and up to extra new rows.
SaveQuestionPage(q, form, rows, added) ==
    /\ AdminFor("Question")
    /\ questions' = (q :> form) @@ questions
    /\ IF \E inl \in QuestionInlines : inl.model = "Choice"
       THEN LET inl == CHOOSE i \in QuestionInlines : i.model = "Choice"
                fresh == {FreeChoiceKeys[k] : k \in 1..Len(added)}
                gone == {c \in DOMAIN rows : rows[c].op = "delete"}
                saved == {c \in DOMAIN rows : rows[c].op = "save"}
                formOf(c) == IF c \in fresh
                             THEN added[CHOOSE k \in 1..Len(added) : FreeChoiceKeys[k] = c]
                             ELSE rows[c].form
                oldOf(c) == IF c \in fresh THEN ChoiceDefaults ELSE choices[c]
            IN  /\ DOMAIN rows = ChoicesOf(q)
                \* the page shows extra empty forms for new rows
                /\ Len(added) <= inl.extra
                /\ Len(added) <= Len(FreeChoiceKeys)
                /\ choices' = [c \in (DOMAIN choices \ gone) \cup fresh |->
                                 IF c \in saved \cup fresh
                                 THEN InlineWrite(q, oldOf(c), formOf(c), inl.fields)
                                 ELSE choices[c]]
                /\ tally' = [c \in (DOMAIN choices \ gone) \cup fresh |->
                                 IF c \in saved \cup fresh
                                 THEN Saved(c, formOf(c).votes)
                                 ELSE tally[c]]
       ELSE /\ DOMAIN rows = {} /\ added = <<>>
            /\ UNCHANGED <<choices, tally>>

AdminAddQuestion ==
    /\ QuestionKeys \ DOMAIN questions # {}
    /\ \E form \in QuestionForms,
          added \in SeqsUpTo(ChoiceForms, Min(ChoiceInlineExtra, Len(FreeChoiceKeys))) :
           SaveQuestionPage(Ascending(QuestionKeys \ DOMAIN questions)[1],
                            form, <<>>, added)

AdminChangeQuestion ==
    \E q \in DOMAIN questions, form \in QuestionForms :
        \E rows \in [ChoicesOf(q) -> RowOps],
           added \in SeqsUpTo(ChoiceForms, Min(ChoiceInlineExtra, Len(FreeChoiceKeys))) :
            SaveQuestionPage(q, form, rows, added)

\* Deleting a Question deletes the Choices that belong to it.
AdminDeleteQuestion ==
    \E q \in DOMAIN questions :
        /\ AdminFor("Question")
        /\ questions' = Without(questions, {q})
        /\ choices' = Without(choices, ChoicesOf(q))
        /\ tally' = Without(tally, ChoicesOf(q))

\* The Choice page of the admin: the question field offers the Questions
\* that exist.
SaveChoicePage(c, q, form) ==
    /\ AdminFor("Choice")
    /\ q \in DOMAIN questions
    /\ choices' = (c :> ChoiceWrite(q, form)) @@ choices
    /\ tally' = (c :> Saved(c, form.votes)) @@ tally
    /\ UNCHANGED questions

AdminAddChoice ==
    /\ FreeChoiceKeys # <<>>
    /\ \E q \in DOMAIN questions, form \in ChoiceForms :
           SaveChoicePage(FreeChoiceKeys[1], q, form)

AdminChangeChoice ==
    \E c \in DOMAIN choices, q \in DOMAIN questions, form \in ChoiceForms :
        SaveChoicePage(c, q, form)

AdminDeleteChoice ==
    \E c \in DOMAIN choices :
        /\ AdminFor("Choice")
        /\ choices' = Without(choices, {c})
        /\ tally' = Without(tally, {c})
        /\ UNCHANGED questions

\* ------------------------------------------------------------ the views

QuestionId(kwargs) == (CHOOSE kv \in kwargs : kv[1] = "question_id")[2]

\* What the results view shows: the votes of each Choice of the Question,
\* read from the Choice rows cs.
ResultsBody(cs, q) ==
    [c \in {d \in DOMAIN cs : cs[d].question = q} |-> cs[c].votes]

\* The vote view changes a row when the Question exists and the Choice
\* posted is one of its Choices.
VoteAccepted(m, choice) ==
    /\ m.view = "vote"
    /\ QuestionId(m.kwargs) \in DOMAIN questions
    /\ choice \in ChoicesOf(QuestionId(m.kwargs))

\* The status of the response of the view the resolver chose.
StatusOf(m, choice) ==
    CASE m.view = "Resolver404" -> 404
      [] m.view \in {"index", "home"} -> 200
      [] m.view \in {"detail", "results"} ->
            IF QuestionId(m.kwargs) \in DOMAIN questions THEN 200 ELSE 404
      [] m.view = "vote" ->
            IF QuestionId(m.kwargs) \notin DOMAIN questions THEN 404
            ELSE IF VoteAccepted(m, choice) THEN 302 ELSE 200

\* What the response shows, read from the rows qs and cs: for results, the
\* votes of the Question's Choices.
BodyOf(m, qs, cs) ==
    IF m.view = "results" /\ QuestionId(m.kwargs) \in DOMAIN qs
    THEN ResultsBody(cs, QuestionId(m.kwargs))
    ELSE <<>>

\* The write of the vote view: one more vote for the Choice posted.
Voted(cs, c) == [cs EXCEPT ![c].votes = @ + 1]

\* One request to the polls namespace: the resolver picks the view and its
\* arguments, and the view runs.  Only vote writes: it adds one to the votes
\* of the Choice posted.
Serve(path, choice, followed) ==
    /\ Serving
    /\ \E m \in {Resolve(urlpatterns, path)} :
           /\ request' = [via |-> "polls", path |-> path, choice |-> choice,
                          followed |-> followed]
           /\ IF VoteAccepted(m, choice)
              THEN /\ choices[choice].votes < MaxVotes
                   /\ tally[choice].cast < MaxVotes
                   /\ choices' = Voted(choices, choice)
                   /\ tally' = [tally EXCEPT ![choice].cast = @ + 1,
                                             ![choice].since = @ + 1]
              ELSE UNCHANGED <<choices, tally>>
           /\ response' = [view |-> m.view, kwargs |-> m.kwargs,
                           status |-> StatusOf(m, choice),
                           body |-> BodyOf(m, questions, choices)]
    /\ UNCHANGED <<startup, questions>>

\* ------------------------------------------------------------- requests

\* The paths the polls pages link to; a vote posts a Choice or nothing.
AppPaths ==
    {<<>>} \cup {ToUrl(n) \o tail : n \in QuestionKeys,
                                    tail \in {Slash, ResultsLit, VoteLit}}

VotePaths == {ToUrl(n) \o VoteLit : n \in QuestionKeys}

Browse ==
    \E path \in AppPaths :
        \E choice \in IF path \in VotePaths THEN {0} \cup ChoiceKeys ELSE {0} :
            Serve(path, choice, "")

Next ==
    \/ LoadAdmin
    \/ LoadUrls
    \/ Browse
    \/ AdminAddQuestion
    \/ AdminChangeQuestion
    \/ AdminDeleteQuestion
    \/ AdminAddChoice
    \/ AdminChangeChoice
    \/ AdminDeleteChoice

Spec == Init /\ [][Next]_vars

\* ----------------------------------------------- the resolver on any path

\* Start-up followed by requests for any path, typed or generated by
\* reverse(), while the tables hold no row.

Alphabet == {"0", "7", "/", "x"}

ShortPaths == SeqsUpTo(Alphabet, MaxPathLen)

DigitStrings == UNION {[1..k -> {"0", "1", "7"}] : k \in 1..MaxDigits}

Heads == DigitStrings \cup {<<>>, <<"x">>, <<"-", "1">>, <<"1", "x">>}

Tails ==
    {<<>>, Slash, ResultsLit, VoteLit,
     Take(ResultsLit, Len(ResultsLit) - 1), Take(VoteLit, Len(VoteLit) - 1),
     ResultsLit \o <<"x", "/">>, VoteLit \o <<"1", "/">>,
     ResultsLit \o Drop(VoteLit, 1), VoteLit \o Drop(ResultsLit, 1),
     <<"/", "/">>, <<"/", "r", "e", "s", "u", "l", "t", "/">>,
     <<"/", "v", "o", "t", "e", "s", "/">>, <<"/", "x", "/">>}

AllPaths == ShortPaths \cup {h \o t : h \in Heads, t \in Tails}

\* The greatest integer a leading segment of AllPaths denotes.
RECURSIVE Pow10(_)
Pow10(k) == IF k = 0 THEN 1 ELSE 10 * Pow10(k - 1)

MaxInt == Pow10(MaxDigits) - 1

RouteNames == {UrlPatterns[i].name : i \in 1..Len(UrlPatterns)}

\* Arguments a template or a view hands to reverse(): none, or a question_id.
ReverseArgs == {{}} \cup {{<<"question_id", n>>} : n \in {-1, 0, 1, 7, 10, 77}}

Request ==
    \E path \in AllPaths : Serve(path, 0, "")

\* A request for the URL that reverse() returns for a route name: a link a
\* page rendered, or the redirect of a view.
FollowLink ==
    \E name \in RouteNames, kwargs \in ReverseArgs :
        /\ urlpatterns # <<>>
        /\ Reverse(urlpatterns, name, kwargs).ok
        /\ Serve(Reverse(urlpatterns, name, kwargs).url, 0, name)

NextDispatch ==
    \/ LoadAdmin
    \/ LoadUrls
    \/ Request
    \/ FollowLink

SpecDispatch == Init /\ [][NextDispatch]_vars

\* ---------------------------------------------------------------- claims

\* The patterns of the loaded table that match a path.
Matching(s) == {i \in 1..Len(urlpatterns) : MatchParts(urlpatterns[i].route, s).matched}

\* The view registered under a route name.
ViewNamed(name) ==
    urlpatterns[CHOOSE i \in 1..Len(urlpatterns) : urlpatterns[i].name = name].view

\* C1: every view function the routing table names (index, detail, results,
\* vote, home) is the dispatch target of at least one request path, the
\* patterns being tried in list order and the first match winning.
C1_EveryHandlerDispatched ==
    urlpatterns # <<>> =>
        \A h \in {urlpatterns[i].view : i \in 1..Len(urlpatterns)} :
            \E s \in AllPaths : Resolve(urlpatterns, s).view = h

\* C2: the empty path is dispatched to index, "<n>/" to detail,
\* "<n>/results/" to results and "<n>/vote/" to vote, for every integer
\* n >= 0 written in decimal, and the last three receive question_id = n.
C2_RoutesAsDeclared ==
    request.via = "polls" =>
        /\ request.path = <<>> =>
               response.view = "index" /\ response.kwargs = {}
        /\ \A n \in 0..MaxInt :
               /\ request.path = ToUrl(n) \o Slash =>
                      /\ response.view = "detail"
                      /\ response.kwargs = {<<"question_id", n>>}
               /\ request.path = ToUrl(n) \o ResultsLit =>
                      /\ response.view = "results"
                      /\ response.kwargs = {<<"question_id", n>>}
               /\ request.path = ToUrl(n) \o VoteLit =>
                      /\ response.view = "vote"
                      /\ response.kwargs = {<<"question_id", n>>}

\* A two-digit number has been routed to results with its value.
C2_Witness ==
    /\ request.path = ToUrl(17) \o ResultsLit
    /\ response.view = "results"
    /\ response.kwargs = {<<"question_id", 17>>}

\* C3: every Choice that exists belongs to exactly one Question, and that
\* Question exists; a Question may own no Choice.
C3_ChoiceBelongsToQuestion ==
    \A c \in DOMAIN choices :
        /\ choices[c].question \in DOMAIN questions
        /\ Cardinality({q \in DOMAIN questions : c \in ChoicesOf(q)}) = 1

\* Two Questions exist, one owning no Choice and the other a Choice that has
\* been voted for.
C3_Witness ==
    \E q1 \in DOMAIN questions, q2 \in DOMAIN questions :
        /\ ChoicesOf(q1) = {}
        /\ \E c \in ChoicesOf(q2) : tally[c].cast > 0

\* C4 as claimed: the votes counter of every Choice equals the number of vote
\* operations that selected it since it was created.
C4_VotesEqualVotesCast ==
    \A c \in DOMAIN choices : choices[c].votes = tally[c].cast

\* C4 as amended: the votes counter of every Choice equals the value the
\* admin form wrote when it last saved the Choice (at its creation or an
\* edit) plus the number of vote operations that selected it since that save.
C4_VotesSinceAdminSave ==
    \A c \in DOMAIN choices : choices[c].votes = tally[c].base + tally[c].since

\* A Choice the admin saved with one vote has been voted for once since.
C4_Witness ==
    \E c \in DOMAIN choices :
        /\ tally[c].base = 1 /\ tally[c].since = 1 /\ tally[c].cast = 1
        /\ choices[c].votes = 2

\* The step is a vote request for Question q posting Choice c of q.
VoteStep(q, c) ==
    /\ request'.via = "polls"
    /\ request'.path = ToUrl(q) \o VoteLit
    /\ request'.choice = c
    /\ q \in DOMAIN questions
    /\ c \in ChoicesOf(q)

\* C5: a vote on Question q selecting Choice c of q adds exactly one to the
\* votes of c, leaves the votes of every other Choice and the text and date
\* of every Question as they were, and a results request for q then shows
\* the new value.
C5_VoteAddsOne ==
    [][\A q \in QuestionKeys, c \in ChoiceKeys :
          VoteStep(q, c) =>
              /\ DOMAIN choices' = DOMAIN choices
              /\ choices'[c].votes = choices[c].votes + 1
              /\ \A d \in DOMAIN choices \ {c} : choices'[d].votes = choices[d].votes
              /\ questions' = questions
              /\ BodyOf(Resolve(urlpatterns, ToUrl(q) \o ResultsLit),
                        questions', choices')[c] = choices[c].votes + 1]_vars

\* A vote has just been counted for a Choice of a Question that owns another
\* Choice with fewer votes.
C5_Witness ==
    /\ request.via = "polls"
    /\ response.view = "vote"
    /\ response.status = 302
    /\ request.choice \in DOMAIN choices
    /\ choices[request.choice].votes = 2
    /\ \E d \in ChoicesOf(choices[request.choice].question) \ {request.choice} :
           choices[d].votes = 0

\* C6: once admin.py is loaded the registry holds exactly Question and
\* Choice, each registered once, Question with QuestionAdmin, whose only
\* inline is ChoiceInline over Choice, and Choice with ChoiceAdmin; the load
\* does not raise.
C6_RegistryAfterLoad ==
    /\ adminPc # AdminRaised
    /\ adminPc = AdminDone =>
           /\ DOMAIN registry = Models
           /\ registry["Question"] = "QuestionAdmin"
           /\ registry["Choice"] = "ChoiceAdmin"
           /\ \A m \in Models :
                  Cardinality({i \in 1..Len(AdminModule) :
                                  /\ AdminModule[i].stmt = "register"
                                  /\ AdminModule[i].target = m}) = 1
           /\ classes["QuestionAdmin"].inlines = <<"ChoiceInline">>
           /\ classes["ChoiceInline"].model = "Choice"

\* The module is loaded and both models are in the registry.
C6_Witness ==
    /\ adminPc = AdminDone
    /\ DOMAIN registry = {"Question", "Choice"}
    /\ DOMAIN classes = {"ChoiceInline", "QuestionAdmin", "ChoiceAdmin"}

\* The text of a path before its first "/", and the text after that "/".
RECURSIVE LeadingSegment(_)
LeadingSegment(s) ==
    IF s = <<>> \/ Head(s) = "/" THEN <<>>
    ELSE <<Head(s)>> \o LeadingSegment(Tail(s))

AfterLeading(s) == Drop(s, Len(LeadingSegment(s)) + 1)

IsDigitString(s) == s # <<>> /\ \A i \in 1..Len(s) : s[i] \in DigitChars

\* The paths C7 speaks of: the leading segment is not a string of decimal
\* digits, or the trailing slash is missing, or what follows the leading
\* segment is more than nothing, "results/" or "vote/".
C7_Malformed(s) ==
    \/ ~IsDigitString(LeadingSegment(s))
    \/ s = <<>>
    \/ s[Len(s)] # "/"
    \/ AfterLeading(s) \notin {<<>>, Drop(ResultsLit, 1), Drop(VoteLit, 1)}

NotFound == response.view = "Resolver404" /\ response.status = 404

\* C7 as claimed: such a path matches no pattern; the outcome is not-found
\* and no view function runs.
C7_MalformedNotFound ==
    (request.via = "polls" /\ C7_Malformed(request.path)) => NotFound

\* C7 as amended: such a path, unless it is the empty path, matches no
\* pattern; the outcome is not-found and no view function runs.
C7_NonEmptyMalformedNotFound ==
    (request.via = "polls" /\ request.path # <<>> /\ C7_Malformed(request.path))
        => NotFound

\* A path with a segment after "results/" was not found.
C7_Witness ==
    /\ request.via = "polls"
    /\ request.path = ToUrl(7) \o ResultsLit \o <<"x", "/">>
    /\ NotFound

\* The table with its patterns listed in another order.
Reordered(f) == [i \in 1..Len(urlpatterns) |-> urlpatterns[f[i]]]

\* C8: every request path matches at most one pattern, so the handler chosen
\* does not depend on the order of the list.
C8_AtMostOnePattern ==
    request.via = "polls" =>
        /\ Cardinality(Matching(request.path)) <= 1
        /\ \A f \in Permutations(1..Len(urlpatterns)) :
               Resolve(Reordered(f), request.path).view = response.view

\* C9: the path reverse() generates for a route name of the polls namespace
\* (with a question_id where the route takes one) resolves to the view
\* registered under that name.
C9_ReverseThenResolve ==
    request.followed # "" => response.view = ViewNamed(request.followed)

====
